---- MODULE Spec2Model ----
(***************************************************************************)
(* Montana county lookup (main.py): county catalog, persistent city store, *)
(* seat auto-registration and the interactive menu / lookup loops.         *)
(*                                                                         *)
(* Text is modelled as sequences of one-character strings, so that         *)
(* str.lower, str.strip, str.split, int() and the f-string of              *)
(* add_city_to_store are computed, character by character, as Python      *)
(* computes them on this alphabet.                                         *)
(***************************************************************************)
EXTENDS Integers, Sequences, FiniteSets, TLC

VARIABLES
  countyFile,  \* MontanaCounties.csv: the rows csv.DictReader yields, or missing
  cityFile,    \* cities.txt on disk
  counties,    \* CountyCatalog of main
  cities,      \* CityStore of main
  pc,          \* position of the program
  user_input,  \* the text the last input() returned
  city,        \* local of city_lookup
  prefix,      \* local of city_lookup
  out,         \* the lines the last step printed
  err          \* the exception that ended the program, "" when none

vars == <<countyFile, cityFile, counties, cities, pc, user_input, city, prefix, out, err>>

(***************************************************************************)
(* Bounds of the model.                                                    *)
(***************************************************************************)
\* Longest city file (in characters) an append may produce.
MaxFileLen == 14

\* Most lines of a generated city file in the loader specification.
MaxLines == 3

(***************************************************************************)
(* Python string primitives.                                               *)
(***************************************************************************)
NL == "\n"

\* str.isspace on the alphabet (blank and newline are its only whitespace):
\* what str.strip() and int() strip.
IsSpace(c) == c \in {" ", NL}

\* str.lower, one character.
LowerChar(c) ==
  CASE c = "A" -> "a"
    [] c = "B" -> "b"
    [] c = "G" -> "g"
    [] c = "Q" -> "q"
    [] OTHER -> c

\* str.lower
Lower(s) == [i \in 1..Len(s) |-> LowerChar(s[i])]

RECURSIVE LStrip(_)
LStrip(s) ==
  IF s # <<>> /\ IsSpace(Head(s)) THEN LStrip(Tail(s)) ELSE s

RECURSIVE RStrip(_)
RStrip(s) ==
  IF s # <<>> /\ IsSpace(s[Len(s)]) THEN RStrip(SubSeq(s, 1, Len(s) - 1)) ELSE s

\* str.strip()
Strip(s) == RStrip(LStrip(s))

\* str.split(sep) for a one-character separator: the fields between the
\* separators, always at least one field.
RECURSIVE SplitFrom(_, _, _)
SplitFrom(s, sep, cur) ==
  IF s = <<>> THEN <<cur>>
  ELSE IF Head(s) = sep THEN <<cur>> \o SplitFrom(Tail(s), sep, <<>>)
  ELSE SplitFrom(Tail(s), sep, Append(cur, Head(s)))

Split(s, sep) == SplitFrom(s, sep, <<>>)

\* Iterating a text file: the lines, each without its terminator; a final
\* fragment that no newline ends is a line too, the empty remainder after the
\* last newline is not.
FileLines(content) ==
  LET parts == Split(content, NL)
  IN  IF parts[Len(parts)] = <<>> THEN SubSeq(parts, 1, Len(parts) - 1) ELSE parts

Digits == {"0", "1", "2", "3", "4", "5", "6", "7", "8", "9"}

DigitVal(c) ==
  CASE c = "0" -> 0 [] c = "1" -> 1 [] c = "2" -> 2 [] c = "3" -> 3
    [] c = "4" -> 4 [] c = "5" -> 5 [] c = "6" -> 6 [] c = "7" -> 7
    [] c = "8" -> 8 [] c = "9" -> 9

DigitChar(d) ==
  CASE d = 0 -> "0" [] d = 1 -> "1" [] d = 2 -> "2" [] d = 3 -> "3"
    [] d = 4 -> "4" [] d = 5 -> "5" [] d = 6 -> "6" [] d = 7 -> "7"
    [] d = 8 -> "8" [] d = 9 -> "9"

RECURSIVE DigitsValue(_, _)
DigitsValue(s, acc) ==
  IF s = <<>> THEN acc ELSE DigitsValue(Tail(s), 10 * acc + DigitVal(Head(s)))

\* int(text): surrounding whitespace is dropped, one optional sign, then one
\* or more decimal digits; anything else raises ValueError (ok = FALSE).
\* (Python also takes "_" between digits and non-ASCII digits; the alphabet
\* of the model has neither.)
ParseInt(text) ==
  LET s      == Strip(text)
      signed == s # <<>> /\ Head(s) \in {"-", "+"}
      body   == IF signed THEN Tail(s) ELSE s
      good   == body # <<>> /\ \A i \in 1..Len(body) : body[i] \in Digits
  IN  IF ~good THEN [ok |-> FALSE, val |-> 0]
      ELSE [ok |-> TRUE,
            val |-> IF signed /\ Head(s) = "-" THEN 0 - DigitsValue(body, 0)
                    ELSE DigitsValue(body, 0)]

RECURSIVE NatDigits(_)
NatDigits(n) ==
  IF n < 10 THEN <<DigitChar(n)>> ELSE Append(NatDigits(n \div 10), DigitChar(n % 10))

\* The f-string conversion {prefix} of an int.
FormatInt(n) == IF n < 0 THEN <<"-">> \o NatDigits(0 - n) ELSE NatDigits(n)


(***************************************************************************)
(* Dictionaries and printed lines.                                         *)
(***************************************************************************)
\* dict[key] = value
Put(d, k, v) == [x \in DOMAIN d \cup {k} |-> IF x = k THEN v ELSE d[x]]

\* A printed line: its fixed text, the string and the number formatted into it.
Msg(text, s, n) == <<text, s, n>>

\* A file of the working directory: missing, or present with its characters.
NoFile == [exists |-> FALSE, content |-> <<>>]

TextFile(content) == [exists |-> TRUE, content |-> content]

(***************************************************************************)
(* CountyCatalog: a dict kept in insertion order, as a sequence of         *)
(* [prefix, county, seat] with pairwise different prefixes.                *)
(***************************************************************************)
HasPrefix(cat, p) == \E i \in 1..Len(cat) : cat[i].prefix = p

CountyOf(cat, p) == cat[CHOOSE i \in 1..Len(cat) : cat[i].prefix = p]

\* counties[prefix] = (county, seat): an existing key keeps its position.
SetCounty(cat, p, county, seat) ==
  IF HasPrefix(cat, p)
  THEN [i \in 1..Len(cat) |->
          IF cat[i].prefix = p THEN [prefix |-> p, county |-> county, seat |-> seat]
          ELSE cat[i]]
  ELSE Append(cat, [prefix |-> p, county |-> county, seat |-> seat])

\* load_county_data over the rows csv.DictReader yields; int() of a prefix
\* column that is no integer raises ValueError out of the function.
RECURSIVE LoadCountyRows(_, _)
LoadCountyRows(rows, cat) ==
  IF rows = <<>> THEN [ok |-> TRUE, val |-> cat]
  ELSE LET row == Head(rows)
           p   == ParseInt(row.prefix)
       IN  IF ~p.ok THEN [ok |-> FALSE, val |-> <<>>]
           ELSE LoadCountyRows(Tail(rows), SetCounty(cat, p.val, row.county, row.seat))

load_county_data(file) == LoadCountyRows(file.content, <<>>)

(***************************************************************************)
(* CityStore.                                                              *)
(***************************************************************************)
\* One pass of the loop body of load_city_data over the remaining lines.
RECURSIVE LoadCityLines(_, _)
LoadCityLines(lines, store) ==
  IF lines = <<>> THEN store
  ELSE LET line   == Strip(Head(lines))
           fields == Split(line, ",")
           p      == ParseInt(fields[2])
       IN  IF line = <<>> THEN LoadCityLines(Tail(lines), store)
           ELSE IF Len(fields) # 2 THEN LoadCityLines(Tail(lines), store)
           ELSE IF ~p.ok THEN LoadCityLines(Tail(lines), store)
           ELSE LoadCityLines(Tail(lines), Put(store, Lower(fields[1]), p.val))

\* The same loop leaving at the first malformed line.
RECURSIVE LoadCityLinesAbort(_, _)
LoadCityLinesAbort(lines, store) ==
  IF lines = <<>> THEN store
  ELSE LET line   == Strip(Head(lines))
           fields == Split(line, ",")
           p      == ParseInt(fields[2])
       IN  IF line = <<>> THEN LoadCityLinesAbort(Tail(lines), store)
           ELSE IF Len(fields) # 2 THEN store
           ELSE IF ~p.ok THEN store
           ELSE LoadCityLinesAbort(Tail(lines), Put(store, Lower(fields[1]), p.val))

load_city_data_abort(file) ==
  IF ~file.exists THEN <<>> ELSE LoadCityLinesAbort(FileLines(file.content), <<>>)

\* load_city_data: a missing file is an empty store.
load_city_data(file) ==
  IF ~file.exists THEN <<>> ELSE LoadCityLines(FileLines(file.content), <<>>)

\* populate_county_seats writing every seat, present or not.
RECURSIVE populate_overwrite(_, _)
populate_overwrite(store, cat) ==
  IF cat = <<>> THEN store
  ELSE populate_overwrite(Put(store, Lower(Head(cat).seat), Head(cat).prefix), Tail(cat))

\* populate_county_seats, in the catalog's iteration order.
RECURSIVE populate_county_seats(_, _)
populate_county_seats(store, cat) ==
  IF cat = <<>> THEN store
  ELSE LET seat_lower == Lower(Head(cat).seat)
       IN  IF seat_lower \notin DOMAIN store
           THEN populate_county_seats(Put(store, seat_lower, Head(cat).prefix), Tail(cat))
           ELSE populate_county_seats(store, Tail(cat))

\* The text add_city_to_store writes: f"{city},{prefix}\n".
CityLine(c, p) == c \o <<",">> \o FormatInt(p) \o <<NL>>

\* open(filename, "w") in place of "a": the earlier content is gone.
WriteTruncating(file, c, p) == TextFile(CityLine(c, p))

\* open(filename, "a") and write: the file is created when missing.
AppendCity(file, c, p) == TextFile(file.content \o CityLine(c, p))


(***************************************************************************)
(* The files and the console input the model draws from.                   *)
(***************************************************************************)
Row(p, county, seat) == [prefix |-> p, county |-> county, seat |-> seat]

CountyFiles ==
  { TextFile(<< Row(<<"1">>, <<"X">>, <<"A">>), Row(<<"2">>, <<"Y">>, <<"a">>) >>),
    TextFile(<< Row(<<"1">>, <<"X">>, <<"B">>), Row(<<"1", "0">>, <<"Y">>, <<"A">>),
                Row(<<" ", "1">>, <<"Z">>, <<"b">>) >>),
    TextFile(<< Row(<<"1">>, <<"X">>, <<"A">>), Row(<<"x">>, <<"Y">>, <<"B">>) >>),
    NoFile }

\* City files of the interactive specification.
CityFiles ==
  { NoFile,
    TextFile(<<>>),
    TextFile(<<"A", ",", "2", NL>>),
    TextFile(<<"g", ",", "9", NL>>),
    TextFile(<<"b", ",", "1">>),
    TextFile(<<"b", ",", "x", NL, "B", ",", "1", NL>>) }

\* Lines of the generated city files of the loader specification.
LineChoices ==
  { <<"a", ",", "1">>, <<"A", ",", "2">>, <<"b">>, <<"b", ",", "x">>,
    <<" ", "B", ",", " ", "1", " ">>, <<"a", ",", "b", ",", "1">>, <<>>,
    <<"g", ",", "9">>, <<",", "1">>, <<"b", ",", "-", "2">> }

RECURSIVE JoinLines(_)
JoinLines(ls) == IF ls = <<>> THEN <<>> ELSE Head(ls) \o <<NL>> \o JoinLines(Tail(ls))

\* Every file of at most MaxLines such lines, ending in a newline or not.
GeneratedCityFiles ==
  {NoFile} \cup
  UNION { { TextFile(JoinLines(ls)),
            TextFile(SubSeq(JoinLines(ls), 1, Len(JoinLines(ls)) - 1)) } :
          ls \in UNION { [1..n -> LineChoices] : n \in 0..MaxLines } }

MenuInputs == { <<"1">>, <<"2">>, <<"3">>, <<"x">>, <<>>, <<" ", "1">> }

LicenseInputs == { <<"q">>, <<"Q">>, <<"1">>, <<" ", "2">>, <<"9">>, <<"x">>, <<>> }

CityInputs ==
  { <<"q">>, <<"Q">>, <<>>, <<"a">>, <<"A">>, <<"b">>, <<"G">>, <<" ", "b">>, <<"b", ",">> }

PrefixInputs ==
  { <<"1">>, <<" ", "2">>, <<"1", "0">>, <<"-", "1">>, <<"9">>, <<"x">>, <<>>, <<"q">> }

(***************************************************************************)
(* The program.                                                            *)
(***************************************************************************)
Crash(e) ==
  /\ pc' = "crashed"
  /\ err' = e
  /\ out' = <<>>

\* main, lines 233-234: both files are loaded.
main_load ==
  /\ pc = "start"
  /\ LET loaded == load_county_data(countyFile)
     IN  IF ~countyFile.exists
         THEN Crash("FileNotFoundError") /\ UNCHANGED <<counties, cities>>
         ELSE IF ~loaded.ok
         THEN Crash("ValueError") /\ UNCHANGED <<counties, cities>>
         ELSE /\ counties' = loaded.val
              /\ cities' = load_city_data(cityFile)
              /\ pc' = "loaded"
              /\ out' = <<>>
              /\ err' = ""
  /\ UNCHANGED <<countyFile, cityFile, user_input, city, prefix>>

\* main, line 237.
main_populate ==
  /\ pc = "loaded"
  /\ cities' = populate_county_seats(cities, counties)
  /\ pc' = "menu"
  /\ UNCHANGED <<countyFile, cityFile, counties, user_input, city, prefix, out, err>>

\* main, one pass of the menu loop up to the call or the break.
main_menu ==
  /\ pc = "menu"
  /\ \E choice \in MenuInputs :
       /\ user_input' = choice
       /\ IF choice = <<"1">> THEN pc' = "license" /\ out' = <<>>
          ELSE IF choice = <<"2">> THEN pc' = "city" /\ out' = <<>>
          ELSE IF choice = <<"3">>
          THEN pc' = "done" /\ out' = << Msg("Thanks for playing. Goodbye!", <<>>, 0) >>
          ELSE pc' = "menu" /\ out' = << Msg("Invalid choice.", <<>>, 0) >>
  /\ UNCHANGED <<countyFile, cityFile, counties, cities, city, prefix, err>>

\* license_lookup, one pass of its loop.
license_lookup ==
  /\ pc = "license"
  /\ \E text \in LicenseInputs :
       LET p == ParseInt(text)
       IN  /\ user_input' = text
           /\ IF Lower(text) = <<"q">> THEN pc' = "menu" /\ out' = <<>>
              ELSE IF ~p.ok
              THEN pc' = "license" /\ out' = << Msg("Please enter a valid number.", <<>>, 0) >>
              ELSE IF HasPrefix(counties, p.val)
              THEN /\ pc' = "license"
                   /\ out' = << Msg("County: ", CountyOf(counties, p.val).county, 0),
                                Msg("County Seat: ", CountyOf(counties, p.val).seat, 0) >>
              ELSE pc' = "license" /\ out' = << Msg("Unknown license plate prefix.", <<>>, 0) >>
  /\ UNCHANGED <<countyFile, cityFile, counties, cities, city, prefix, err>>

\* city_lookup, lines 181-183 with the input kept as typed.
city_lookup_name_as_typed ==
  /\ pc = "city"
  /\ \E text \in CityInputs :
       /\ user_input' = text
       /\ IF text = <<"q">>
          THEN pc' = "menu" /\ out' = <<>> /\ city' = <<>> /\ prefix' = 0 /\ err' = ""
          ELSE IF text = <<>>
          THEN /\ pc' = "city" /\ out' = << Msg("City name cannot be empty.", <<>>, 0) >>
               /\ city' = text /\ UNCHANGED <<prefix, err>>
          ELSE IF text \in DOMAIN cities
          THEN /\ city' = text
               /\ IF HasPrefix(counties, cities[text])
                  THEN /\ pc' = "city"
                       /\ prefix' = cities[text]
                       /\ out' = << Msg("County: ", CountyOf(counties, cities[text]).county, 0),
                                    Msg("License Prefix: ", <<>>, cities[text]) >>
                       /\ err' = ""
                  ELSE Crash("KeyError") /\ prefix' = cities[text]
          ELSE /\ pc' = "prefix" /\ out' = << Msg("City not found.", <<>>, 0) >>
               /\ city' = text /\ UNCHANGED <<prefix, err>>
  /\ UNCHANGED <<countyFile, cityFile, counties, cities>>

\* city_lookup, lines 181-201: the name prompt, the lookup of a known city.
city_lookup_name ==
  /\ pc = "city"
  /\ \E text \in CityInputs :
       LET name == Lower(text)
       IN  /\ user_input' = text
           /\ IF name = <<"q">>
              THEN pc' = "menu" /\ out' = <<>> /\ city' = <<>> /\ prefix' = 0 /\ err' = ""
              ELSE IF name = <<>>
              THEN /\ pc' = "city" /\ out' = << Msg("City name cannot be empty.", <<>>, 0) >>
                   /\ city' = name /\ UNCHANGED <<prefix, err>>
              ELSE IF name \in DOMAIN cities
              THEN /\ city' = name
                   /\ IF HasPrefix(counties, cities[name])
                      THEN /\ pc' = "city"
                           /\ prefix' = cities[name]
                           /\ out' = << Msg("County: ", CountyOf(counties, cities[name]).county, 0),
                                        Msg("License Prefix: ", <<>>, cities[name]) >>
                           /\ err' = ""
                      ELSE Crash("KeyError") /\ prefix' = cities[name]
              ELSE /\ pc' = "prefix" /\ out' = << Msg("City not found.", <<>>, 0) >>
                   /\ city' = name /\ UNCHANGED <<prefix, err>>
  /\ UNCHANGED <<countyFile, cityFile, counties, cities>>


\* city_lookup, lines 204-218 without the check of line 216.
city_lookup_prefix_unvalidated ==
  /\ pc = "prefix"
  /\ \E text \in PrefixInputs :
       LET p == ParseInt(text)
       IN  /\ user_input' = text
           /\ IF ~p.ok
              THEN /\ pc' = "city" /\ out' = << Msg("Invalid prefix.", <<>>, 0) >>
                   /\ UNCHANGED prefix
              ELSE IF p.val = -1
              THEN pc' = "city" /\ out' = <<>> /\ prefix' = p.val
              ELSE pc' = "append" /\ out' = <<>> /\ prefix' = p.val
  /\ UNCHANGED <<countyFile, cityFile, counties, cities, city, err>>

\* city_lookup, lines 204-218 with the except clause of line 208 missing.
city_lookup_prefix_uncaught ==
  /\ pc = "prefix"
  /\ \E text \in PrefixInputs :
       LET p == ParseInt(text)
       IN  /\ user_input' = text
           /\ IF ~p.ok
              THEN Crash("ValueError") /\ UNCHANGED prefix
              ELSE IF p.val = -1
              THEN pc' = "city" /\ out' = <<>> /\ prefix' = p.val /\ err' = ""
              ELSE IF ~HasPrefix(counties, p.val)
              THEN /\ pc' = "city" /\ prefix' = p.val /\ err' = ""
                   /\ out' = << Msg("That license prefix does not exist.", <<>>, 0) >>
              ELSE pc' = "append" /\ out' = <<>> /\ prefix' = p.val /\ err' = ""
  /\ UNCHANGED <<countyFile, cityFile, counties, cities, city>>

\* city_lookup, lines 204-218: the prefix prompt of an unknown city.
city_lookup_prefix ==
  /\ pc = "prefix"
  /\ \E text \in PrefixInputs :
       LET p == ParseInt(text)
       IN  /\ user_input' = text
           /\ IF ~p.ok
              THEN /\ pc' = "city" /\ out' = << Msg("Invalid prefix.", <<>>, 0) >>
                   /\ UNCHANGED prefix
              ELSE IF p.val = -1
              THEN pc' = "city" /\ out' = <<>> /\ prefix' = p.val
              ELSE IF ~HasPrefix(counties, p.val)
              THEN /\ pc' = "city" /\ prefix' = p.val
                   /\ out' = << Msg("That license prefix does not exist.", <<>>, 0) >>
              ELSE pc' = "append" /\ out' = <<>> /\ prefix' = p.val
  /\ UNCHANGED <<countyFile, cityFile, counties, cities, city, err>>

\* Line 222 run in place of line 221: the store is updated, nothing is written.
add_city_memory_first ==
  /\ pc = "append"
  /\ cities' = Put(cities, city, prefix)
  /\ pc' = "store"
  /\ UNCHANGED <<countyFile, cityFile, counties, user_input, city, prefix, out, err>>

\* city_lookup, line 221: add_city_to_store appends the line, or open/write
\* raises OSError, which nothing catches.
add_city_to_store ==
  /\ pc = "append"
  /\ \/ /\ Len(cityFile.content) + Len(CityLine(city, prefix)) <= MaxFileLen
        /\ cityFile' = AppendCity(cityFile, city, prefix)
        /\ pc' = "store"
        /\ UNCHANGED <<out, err>>
     \/ /\ Crash("OSError")
        /\ UNCHANGED cityFile
  /\ UNCHANGED <<countyFile, counties, cities, user_input, city, prefix>>

\* city_lookup, lines 222-224.
city_lookup_store ==
  /\ pc = "store"
  /\ cities' = Put(cities, city, prefix)
  /\ out' = << Msg("City added for future lookups.", <<>>, 0) >>
  /\ pc' = "city"
  /\ UNCHANGED <<countyFile, cityFile, counties, user_input, city, prefix, err>>

Blank ==
  /\ counties = <<>>
  /\ cities = <<>>
  /\ pc = "start"
  /\ user_input = <<>>
  /\ city = <<>>
  /\ prefix = 0
  /\ out = <<>>
  /\ err = ""

Init ==
  /\ countyFile \in CountyFiles
  /\ cityFile \in CityFiles
  /\ Blank

Next ==
  \/ main_load
  \/ main_populate
  \/ main_menu
  \/ license_lookup
  \/ city_lookup_name
  \/ city_lookup_prefix
  \/ add_city_to_store
  \/ city_lookup_store

Spec == Init /\ [][Next]_vars

\* Startup alone, over every generated city file.
InitLoad ==
  /\ countyFile \in CountyFiles
  /\ cityFile \in GeneratedCityFiles
  /\ Blank

NextLoad ==
  \/ main_load
  \/ main_populate

SpecLoad == InitLoad /\ [][NextLoad]_vars


(***************************************************************************)
(* Properties.                                                             *)
(***************************************************************************)
IsPrefixOf(a, b) == Len(a) <= Len(b) /\ SubSeq(b, 1, Len(a)) = a

EndsWith(s, tail) ==
  Len(tail) <= Len(s) /\ SubSeq(s, Len(s) - Len(tail) + 1, Len(s)) = tail

Added == << Msg("City added for future lookups.", <<>>, 0) >>

\* C1: once the add-flow has added a city (line 224 reached), the store maps
\* the entered name to the entered prefix, and so does a fresh
\* load_city_data of the city file.
C1_AddedCityPersists ==
  (pc = "city" /\ out = Added) =>
    /\ city \in DOMAIN cities
    /\ cities[city] = prefix
    /\ LET fresh == load_city_data(cityFile)
       IN  city \in DOMAIN fresh /\ fresh[city] = prefix

\* C2: at the prefix prompt, an integer that is no prefix of the catalog
\* sends the loop back to the name prompt with the store and the file as they
\* were; and whatever the add-flow writes to the file or inserts into the
\* store is the pair (city, prefix) with prefix in the catalog.
C2_UnknownPrefixRejected ==
  [][ /\ (pc = "prefix" /\ ParseInt(user_input').ok
            /\ ~HasPrefix(counties, ParseInt(user_input').val))
         => (pc' = "city" /\ cities' = cities /\ cityFile' = cityFile)
      /\ (cityFile' # cityFile)
         => (HasPrefix(counties, prefix) /\ cityFile' = AppendCity(cityFile, city, prefix))
      /\ (pc \notin {"start", "loaded"} /\ cities' # cities)
         => (HasPrefix(counties, prefix) /\ cities' = Put(cities, city, prefix)) ]_vars

C2_Witness ==
  /\ pc = "city"
  /\ out = << Msg("That license prefix does not exist.", <<>>, 0) >>
  /\ ~HasPrefix(counties, prefix)

\* C3: at the name prompt, a name whose lowercase form is a key of the store
\* gets its county and its prefix printed, and the loop goes on.
C3_KnownCityPrinted ==
  [][ (pc = "city" /\ Lower(user_input') \in DOMAIN cities)
      => LET p == cities[Lower(user_input')]
         IN  /\ pc' = "city"
             /\ err' = ""
             /\ HasPrefix(counties, p)
             /\ out' = << Msg("County: ", CountyOf(counties, p).county, 0),
                          Msg("License Prefix: ", <<>>, p) >> ]_vars

\* C4: populate_county_seats makes every lowercased seat a key, leaves every
\* key it found with its prefix, and gives every key it adds the prefix of a
\* county whose lowercased seat is that key.
C4_SeatsRegistered ==
  [][ (pc = "loaded" /\ pc' = "menu") =>
        /\ \A i \in 1..Len(counties) : Lower(counties[i].seat) \in DOMAIN cities'
        /\ \A k \in DOMAIN cities : k \in DOMAIN cities' /\ cities'[k] = cities[k]
        /\ \A k \in DOMAIN cities' \ DOMAIN cities :
             \E i \in 1..Len(counties) :
               Lower(counties[i].seat) = k /\ counties[i].prefix = cities'[k] ]_vars

\* A seat the city file had claimed with another prefix, next to a seat that
\* was registered.
C4_Witness ==
  /\ pc = "menu"
  /\ \E i \in 1..Len(counties) :
       /\ Lower(counties[i].seat) \in DOMAIN load_city_data(cityFile)
       /\ \A j \in 1..Len(counties) :
            Lower(counties[j].seat) = Lower(counties[i].seat)
              => cities[Lower(counties[i].seat)] # counties[j].prefix
  /\ \E i \in 1..Len(counties) :
       /\ Lower(counties[i].seat) \notin DOMAIN load_city_data(cityFile)
       /\ cities[Lower(counties[i].seat)] = counties[i].prefix

\* C5: no step shortens or rewrites the city file (its content stays a
\* prefix of the later content), no step removes a key of the store or gives
\* it another prefix, and the add-flow runs only for a name that is no key.
C5_AppendOnly ==
  [][ /\ IsPrefixOf(cityFile.content, cityFile'.content)
      /\ (cityFile.exists => cityFile'.exists)
      /\ \A k \in DOMAIN cities : k \in DOMAIN cities' /\ cities'[k] = cities[k]
      /\ (pc \in {"prefix", "append", "store"} => city \notin DOMAIN cities) ]_vars

\* An append to a file that had content, with a store that had keys.
C5_Witness ==
  /\ pc = "city"
  /\ out = Added
  /\ Len(cityFile.content) > Len(CityLine(city, prefix))
  /\ Cardinality(DOMAIN cities) > 1

\* A line is well-formed when, stripped, it splits on "," into exactly two
\* fields and the second is integer-parseable.
WellFormed(raw) ==
  LET fields == Split(Strip(raw), ",")
  IN  Len(fields) = 2 /\ ParseInt(fields[2]).ok

LineKey(raw) == Lower(Split(Strip(raw), ",")[1])

LineVal(raw) == ParseInt(Split(Strip(raw), ",")[2]).val

\* C6: after load_city_data, every well-formed line of the file is in the
\* store under its lowercased city, with its prefix unless a later well-formed
\* line names the same city, wherever the malformed lines are; and every key
\* comes from a well-formed line.
C6_MalformedLinesSkipped ==
  pc = "loaded" =>
    LET ls == FileLines(cityFile.content)
    IN  /\ \A i \in 1..Len(ls) :
             WellFormed(ls[i]) =>
               /\ LineKey(ls[i]) \in DOMAIN cities
               /\ (\A j \in (i + 1)..Len(ls) :
                      ~(WellFormed(ls[j]) /\ LineKey(ls[j]) = LineKey(ls[i])))
                  => cities[LineKey(ls[i])] = LineVal(ls[i])
        /\ \A k \in DOMAIN cities :
             \E i \in 1..Len(ls) : WellFormed(ls[i]) /\ LineKey(ls[i]) = k

\* A malformed, non-empty line before a well-formed one and another after it.
C6_Witness ==
  /\ pc = "loaded"
  /\ LET ls == FileLines(cityFile.content)
     IN  \E i, j, k \in 1..Len(ls) :
           /\ i < j /\ j < k
           /\ ~WellFormed(ls[i]) /\ Strip(ls[i]) # <<>>
           /\ WellFormed(ls[j]) /\ cities[LineKey(ls[j])] = LineVal(ls[j])
           /\ ~WellFormed(ls[k]) /\ Strip(ls[k]) # <<>>


\* C7: the program ends normally only on "3" at the menu, every other menu
\* input stays in the menu loop or enters a sub-loop; license_lookup and
\* city_lookup go back to the menu exactly on "q" (any case) at their first
\* prompt, and after any other input stay in their own loop. A failed write
\* of the city file is no input and is left out of the statement.
C7_ControlFlow ==
  [][ /\ (pc = "menu") =>
           /\ pc' \in {"menu", "license", "city", "done"}
           /\ (pc' = "done") <=> (user_input' = <<"3">>)
      /\ (pc' = "done") => (pc = "menu")
      /\ (pc = "license") =>
           pc' = IF Lower(user_input') = <<"q">> THEN "menu" ELSE "license"
      /\ (pc = "city") =>
           IF Lower(user_input') = <<"q">> THEN pc' = "menu" ELSE pc' \in {"city", "prefix"}
      /\ (pc = "prefix") => pc' \in {"city", "append"}
      /\ (pc = "append") => (pc' = "store" \/ err' = "OSError")
      /\ (pc = "store") => pc' = "city" ]_vars

\* A step on invalid input: a non-integer at the license prompt, an empty
\* city name, a non-integer or -1 at the prefix prompt, a menu choice other
\* than 1, 2, 3.
InvalidInputStep ==
  \/ pc = "license" /\ Lower(user_input') # <<"q">> /\ ~ParseInt(user_input').ok
  \/ pc = "city" /\ Lower(user_input') = <<>>
  \/ pc = "prefix" /\ (~ParseInt(user_input').ok \/ ParseInt(user_input').val = -1)
  \/ pc = "menu" /\ user_input' \notin {<<"1">>, <<"2">>, <<"3">>}

\* C8: a step on invalid input raises nothing, prints at most one line,
\* prompts again in the same loop (the name prompt, for the prefix prompt)
\* and leaves the store, the catalog and the city file as they were.
C8_InvalidInputRecovers ==
  [][ InvalidInputStep =>
        /\ err' = ""
        /\ pc' = (IF pc = "prefix" THEN "city" ELSE pc)
        /\ Len(out') <= 1
        /\ cities' = cities
        /\ counties' = counties
        /\ cityFile' = cityFile ]_vars

\* A rejected non-integer at the prefix prompt, later in a session that has
\* already added a city.
C8_Witness ==
  /\ pc = "city"
  /\ out = << Msg("Invalid prefix.", <<>>, 0) >>
  /\ ~ParseInt(user_input).ok
  /\ cityFile.content # <<>>
  /\ city \notin DOMAIN cities

\* C9: every key of the store is its own lowercase form, and so is the name
\* the add-flow holds from the name prompt to the append and the insertion.
C9_KeysLowercased ==
  /\ \A k \in DOMAIN cities : Lower(k) = k
  /\ (pc \in {"prefix", "append", "store"}) => (Lower(city) = city)

\* A city typed with capitals has been added, next to a key loaded from a
\* capitalised line or seat.
C9_Witness ==
  /\ pc = "city"
  /\ out = Added
  /\ \E i \in 1..Len(counties) : counties[i].seat # Lower(counties[i].seat)
  /\ city = <<"g">>
  /\ city \in DOMAIN cities

\* C10: the store gains an entry only in the step after the append, when
\* the file already ends with that entry's line; between the two the name is
\* in the file and not yet in the store; and a failed append leaves the store
\* and the file as they were, the name absent from the store.
C10_AppendBeforeStore ==
  [][ /\ (pc \notin {"start", "loaded"} /\ cities' # cities) =>
           /\ pc = "store"
           /\ EndsWith(cityFile.content, CityLine(city, prefix))
           /\ cities' = Put(cities, city, prefix)
           /\ cityFile' = cityFile
      /\ (pc = "store") =>
           (EndsWith(cityFile.content, CityLine(city, prefix)) /\ city \notin DOMAIN cities)
      /\ (err = "" /\ err' = "OSError") =>
           (cities' = cities /\ cityFile' = cityFile /\ city \notin DOMAIN cities') ]_vars

\* The append failed on a second add, after a first one went through.
C10_Witness ==
  /\ err = "OSError"
  /\ city \notin DOMAIN cities
  /\ \E k \in DOMAIN cities : cityFile.content # <<>> /\ EndsWith(cityFile.content, CityLine(k, cities[k]))

====
